---- MODULE Spec2Model ----
(***************************************************************************)
(* A model of bevy_ecs_ldtk's level spawning: the tile makers of           *)
(* src/src/tile_makers.rs and spawn_level / layer_grid_tiles /             *)
(* process_ldtk_world of src/src/systems.rs.                               *)
(*                                                                         *)
(* Five specifications share the module:                                  *)
(*   SpecTiles    layer_grid_tiles followed by tile_pos_to_tile_maker on   *)
(*                every partition, for bounded tile lists;                 *)
(*   SpecFlips    the same machine, on tile lists that vary the flip code; *)
(*   SpecIntGrid  tile_pos_to_tile_bundle_if_int_grid_nonzero_maker, for   *)
(*                bounded int-grid arrays;                                 *)
(*   Spec         one spawn_level pass over a bounded level;               *)
(*   SpecWorld    one run of process_ldtk_world over bounded asset events. *)
(*                                                                         *)
(* Option<T> is a sequence: <<>> is None and <<x>> is Some(x).             *)
(* A u32 is held as the i32 that has the same 32 bits, so a u32 of 2^31 or *)
(* more is a negative number here (4294967295 is -1): the model checker's  *)
(* integers stop at 2^31 - 1.  U32Lt compares two of them as unsigned.     *)
(***************************************************************************)
EXTENDS Integers, Sequences, FiniteSets, TLC

VARIABLES
    \* ---- tile_pos_to_tile_maker / layer_grid_tiles (SpecTiles, SpecFlips)
    grid_tiles,             \* the layer's tile list (Vec<TileInstance>)
    layer_height_in_tiles,  \* layer_instance.c_hei
    layer_grid_size,        \* layer_instance.grid_size
    overflow_checks,        \* the build: TRUE panics on integer overflow (debug), FALSE wraps (release);
                            \* the spawn pass of Spec reads it too
    layered_grid_tiles,     \* Option: the result of layer_grid_tiles
    tile_makers,            \* per partition built so far, the outcome of tile_pos_to_tile_maker
    \* ---- tile_pos_to_tile_bundle_if_int_grid_nonzero_maker (SpecIntGrid)
    int_grid_csv,           \* layer_instance.int_grid_csv
    layer_width_in_tiles,   \* layer_instance.c_wid
    int_grid_height,        \* layer_instance.c_hei of the int-grid layer
    nonzero_maker,          \* Option: the outcome of building the bundle maker
    \* ---- spawn_level (Spec)
    level,                  \* level.layer_instances: Option<Vec<LayerInstance>>
    tileset_definition_map, \* the uids that have a TilesetDefinition
    tileset_map,            \* the uids that have an image handle
    ldtk_entity_map,        \* the registry: (layer identifier, entity identifier) -> behavior
    ldtk_int_cell_map,      \* the registry: (layer identifier, int-grid value) -> behavior
    layers_done,            \* how many layers of the reversed list the loop has passed
    layer_id,               \* spawn_level's depth counter
    commands,               \* the placements queued on Commands so far, in order
    status,                 \* "running" | "done" | "panicked"
    \* ---- process_ldtk_world (SpecWorld)
    ldtk_events,            \* the AssetEvent<LdtkAsset>s of the update, in order
    ldtk_world_query,       \* the LDtk world entities: entity, handle, level selection, and
                            \* whether the handle is newly added (the new_ldtks query)
    ldtk_assets,            \* the loaded assets: handle -> number of levels of the project
    changed_ldtks,          \* the Vec of changed handles
    events_read,            \* how many events the first loop has passed
    respawned,              \* how many changed handles the last loop has passed
    world_commands,         \* the commands process_ldtk_world queued so far, in order
    world_status            \* "events" | "respawn" | "done"

tileVars == <<grid_tiles, layer_height_in_tiles, layer_grid_size, overflow_checks,
              layered_grid_tiles, tile_makers>>
intGridVars == <<int_grid_csv, layer_width_in_tiles, int_grid_height, nonzero_maker>>
spawnVars == <<level, tileset_definition_map, tileset_map, ldtk_entity_map,
               ldtk_int_cell_map, layers_done, layer_id, commands, status>>
worldVars == <<ldtk_events, ldtk_world_query, ldtk_assets, changed_ldtks, events_read,
               respawned, world_commands, world_status>>
vars == <<tileVars, intGridVars, spawnVars, worldVars>>

----------------------------------------------------------------------------
\* Bounds and input domains.

\* The longest tile list a layer carries.
MaxTiles == 3
\* The pixel coordinates a tile may have: negative ones, ones off the grid.
PxXValues == {-1, 0, 1, 2}
PxYValues == {0, 2}
\* The texture indices of the tiles.
TValues == {1, 2}
\* The layer's grid size and height in cells.
GridSizes == {1, 2}
LayerHeights == {2}

None == <<>>
Some(x) == <<x>>
IsSome(o) == o # <<>>
Unwrap(o) == o[1]

----------------------------------------------------------------------------
\* Integer arithmetic as Rust does it.

\* i32 / i32 for a positive divisor: the quotient is truncated toward zero.
TruncDiv(a, b) == IF a >= 0 THEN a \div b ELSE -((-a) \div b)

\* `x as u32` of an i32: the 32 bits are kept, and so is the representative.
AsU32(x) == x

\* a < b for two u32: a u32 below 2^31 (non-negative here) is less than one
\* from 2^31 up (negative here).
U32Lt(a, b) == IF (a >= 0) = (b >= 0) THEN a < b ELSE a >= 0

\* a - b of two u32, wrapping.  The operands of this model lie within 2^30 of
\* 0 or of 2^32, so the difference of the representatives is the representative.
U32WrappingSub(a, b) == a - b

\* `t as u16` of an i32: the low 16 bits.
AsU16(t) == t % 65536

----------------------------------------------------------------------------
\* layer_grid_tiles (systems.rs 453-470).

\* The for loop: the first tile at each pixel position stays in `layer`, a tile
\* whose px some tile of `layer` already has goes to `overflow`.
RECURSIVE SplitOverflow(_, _, _)
\* SplitOverflow with the deferred tile put in front of `overflow`, not behind.
RECURSIVE SplitOverflowPrepending(_, _, _)
SplitOverflowPrepending(tiles, layer, overflow) ==
    IF tiles = <<>> THEN [layer |-> layer, overflow |-> overflow]
    ELSE LET tile == Head(tiles) IN
         IF \E i \in DOMAIN layer : layer[i].px = tile.px
         THEN SplitOverflowPrepending(Tail(tiles), layer, <<tile>> \o overflow)
         ELSE SplitOverflowPrepending(Tail(tiles), Append(layer, tile), overflow)

SplitOverflow(tiles, layer, overflow) ==
    IF tiles = <<>> THEN [layer |-> layer, overflow |-> overflow]
    ELSE LET tile == Head(tiles) IN
         IF \E i \in DOMAIN layer : layer[i].px = tile.px
         THEN SplitOverflow(Tail(tiles), layer, Append(overflow, tile))
         ELSE SplitOverflow(Tail(tiles), Append(layer, tile), overflow)

RECURSIVE layer_grid_tiles(_)
\* layer_grid_tiles without the recursion: the overflow is one partition.
layer_grid_tiles_once(tiles) ==
    LET split == SplitOverflow(tiles, <<>>, <<>>) IN
    IF split.overflow # <<>>
    THEN <<split.layer, split.overflow>>
    ELSE <<split.layer>>

\* layer_grid_tiles that gives an empty list no partition.
layer_grid_tiles_skipping_empty(tiles) ==
    LET split == SplitOverflow(tiles, <<>>, <<>>) IN
    IF tiles = <<>> THEN <<>>
    ELSE IF split.overflow # <<>>
    THEN <<split.layer>> \o layer_grid_tiles(split.overflow)
    ELSE <<split.layer>>

layer_grid_tiles(tiles) ==
    LET split == SplitOverflow(tiles, <<>>, <<>>) IN
    IF split.overflow # <<>>
    THEN <<split.layer>> \o layer_grid_tiles(split.overflow)
    ELSE <<split.layer>>

----------------------------------------------------------------------------
\* tile_pos_to_tile_maker (tile_makers.rs 34-72).

\* The key a tile instance gets in grid_tile_map (lines 43-46).
TileColumn(grid_size, t) == AsU32(TruncDiv(t.px[1], grid_size))
TileRowFromTop(grid_size, t) == AsU32(TruncDiv(t.px[2], grid_size))
TilePosOf(height, grid_size, t) ==
    <<TileColumn(grid_size, t),
      U32WrappingSub(U32WrappingSub(AsU32(height), TileRowFromTop(grid_size, t)), 1)>>

\* Whether `height as u32 - row as u32 - 1` overflows (line 45).
RowSubOverflows(height, grid_size, t) ==
    \/ U32Lt(AsU32(height), TileRowFromTop(grid_size, t))
    \/ U32Lt(U32WrappingSub(AsU32(height), TileRowFromTop(grid_size, t)), 1)

\* HashMap::insert: a later entry replaces an earlier one under the same key.
MapInsert(map, key, value) ==
    [k \in DOMAIN map \cup {key} |-> IF k = key THEN value ELSE map[k]]

\* .collect() into the HashMap, in list order (lines 39-50).
RECURSIVE CollectGridTileMap(_, _, _, _)
CollectGridTileMap(height, grid_size, tiles, map) ==
    IF tiles = <<>> THEN map
    ELSE CollectGridTileMap(height, grid_size, Tail(tiles),
             MapInsert(map, TilePosOf(height, grid_size, Head(tiles)), Head(tiles)))

EmptyMap == [k \in {} |-> 0]

\* The outcome of tile_pos_to_tile_maker: the map the returned closure owns, or
\* a panic when the build checks overflow and a row subtraction overflows.
grid_tile_map(checks, height, grid_size, tiles) ==
    IF checks /\ \E i \in DOMAIN tiles : RowSubOverflows(height, grid_size, tiles[i])
    THEN [panicked |-> TRUE, map |-> EmptyMap]
    ELSE [panicked |-> FALSE,
          map |-> CollectGridTileMap(height, grid_size, tiles, EmptyMap)]

\* The flip decode with the arms of 1 and 2 exchanged.
FlipOfSwapped(f) ==
    CASE f = 1 -> <<FALSE, TRUE>>
      [] f = 2 -> <<TRUE, FALSE>>
      [] f = 3 -> <<TRUE, TRUE>>
      [] OTHER -> <<FALSE, FALSE>>

\* The flip decode (lines 55-60).
FlipOf(f) ==
    CASE f = 1 -> <<TRUE, FALSE>>
      [] f = 2 -> <<FALSE, TRUE>>
      [] f = 3 -> <<TRUE, TRUE>>
      [] OTHER -> <<FALSE, FALSE>>

\* The closure (lines 52-71): Option<Tile> at a tile position.
tile_maker(map, tile_pos) ==
    IF tile_pos \in DOMAIN map
    THEN LET tile_instance == map[tile_pos] IN
         Some([texture_index |-> AsU16(tile_instance.t),
               flip_x |-> FlipOf(tile_instance.f)[1],
               flip_y |-> FlipOf(tile_instance.f)[2],
               visible |-> TRUE])
    ELSE None

\* tile_pos_to_invisible_tile (lines 24-29).
tile_pos_to_invisible_tile(tile_pos) ==
    Some([texture_index |-> 0, flip_x |-> FALSE, flip_y |-> FALSE, visible |-> FALSE])

\* tile_pos_to_tile_bundle_maker (lines 110-119): the tile, bundled.
tile_pos_to_tile_bundle_maker(map, tile_pos) ==
    IF IsSome(tile_maker(map, tile_pos))
    THEN Some([tile |-> Unwrap(tile_maker(map, tile_pos))])
    ELSE None

----------------------------------------------------------------------------
\* tile_pos_to_tile_bundle_if_int_grid_nonzero_maker (tile_makers.rs 78-105).

\* utils::int_grid_index_to_tile_pos: the row-major decode of an index of
\* int_grid_csv, None from width * height on.
int_grid_index_to_tile_pos(index, width, height) ==
    IF index >= width * height
    THEN None
    ELSE Some(<<index % width, height - (index \div width) - 1>>)

\* The test of line 92 with > for !=.
IsNonzeroPositive(v) == v > 0

\* `*v != 0` (line 92, and the filter of systems.rs 367).
IsNonzero(v) == v # 0

\* .collect() of lines 84-95, which stops at the first index that the decode
\* refuses (.expect): the index i of Rust is the place i + 1 of the sequence.
RECURSIVE CollectNonzeroMap(_, _, _, _, _)
\* The collect with the height handed to the decode as the width.
CollectNonzeroMapTransposed(csv, width, height, i, map) ==
    IF i >= Len(csv) THEN [panicked |-> FALSE, map |-> map]
    ELSE LET tile_pos == int_grid_index_to_tile_pos(i, AsU32(height), AsU32(width)) IN
         IF tile_pos = None
         THEN [panicked |-> TRUE, map |-> EmptyMap]
         ELSE CollectNonzeroMap(csv, width, height, i + 1,
                  MapInsert(map, Unwrap(tile_pos), IsNonzero(csv[i + 1])))

CollectNonzeroMap(csv, width, height, i, map) ==
    IF i >= Len(csv) THEN [panicked |-> FALSE, map |-> map]
    ELSE LET tile_pos == int_grid_index_to_tile_pos(i, AsU32(width), AsU32(height)) IN
         IF tile_pos = None
         THEN [panicked |-> TRUE, map |-> EmptyMap]
         ELSE CollectNonzeroMap(csv, width, height, i + 1,
                  MapInsert(map, Unwrap(tile_pos), IsNonzero(csv[i + 1])))

\* The outcome of building the bundle maker: its nonzero_map, or a panic.
nonzero_map(csv, width, height) == CollectNonzeroMap(csv, width, height, 0, EmptyMap)

\* The closure (lines 96-104) over tile_pos_to_invisible_tile, the tile maker
\* spawn_level hands it: Option<TileBundle> at a tile position.
int_grid_nonzero_bundle_maker(map, tile_pos) ==
    IF tile_pos \in DOMAIN map /\ map[tile_pos]
    THEN IF IsSome(tile_pos_to_invisible_tile(tile_pos))
         THEN Some([tile |-> Unwrap(tile_pos_to_invisible_tile(tile_pos))])
         ELSE None
    ELSE None

----------------------------------------------------------------------------
\* spawn_level (systems.rs 199-451).

\* const CHUNK_SIZE: ChunkSize = ChunkSize(32, 32), the same in both directions.
CHUNK_SIZE == 32

\* utils::ldtk_map_get_or_default: the behavior registered under exactly
\* (a, b), the default when there is none.
ldtk_map_get_or_default(a, b, default, map) ==
    IF <<a, b>> \in DOMAIN map THEN map[<<a, b>>] ELSE default

\* The defaults of lines 238-239 and 388-389.
default_ldtk_entity == <<"default entity">>
default_ldtk_int_cell == <<"default int cell">>

\* Some behavior registered for the entity identifier, whatever its layer.
ResolveEntityBehaviorAnyLayer(layer_instance, entity_instance, map) ==
    IF \E k \in DOMAIN map : k[2] = entity_instance.identifier
    THEN map[CHOOSE k \in DOMAIN map : k[2] = entity_instance.identifier]
    ELSE default_ldtk_entity

\* The lookup of lines 241-246.
ResolveEntityBehavior(layer_instance, entity_instance, map) ==
    ldtk_map_get_or_default(layer_instance.identifier, entity_instance.identifier,
                            default_ldtk_entity, map)

\* The lookup of lines 391-396.
ResolveIntCellBehavior(layer_instance, value, map) ==
    ldtk_map_get_or_default(layer_instance.identifier, value,
                            default_ldtk_int_cell, map)

\* utils::calculate_transform_from_entity_instance: the transform of an
\* entity, of which the model keeps the z, the layer depth it is given.
calculate_transform_from_entity_instance(layer_z) == [z |-> layer_z]

\* The loop over the entity instances of an Entities layer (lines 218-261):
\* one placement each, its transform computed from layer_id (line 223), with
\* the tileset image and the tileset definition of its tile when the maps
\* have them (lines 230-236).
\* `l` is the place of the layer in level.layer_instances.
EntityPlacements(layer_instance, l, lid, defs, images, entity_map) ==
    [e \in DOMAIN layer_instance.entity_instances |->
        LET entity_instance == layer_instance.entity_instances[e] IN
        [kind |-> "entity",
         layer |-> l,
         identifier |-> entity_instance.identifier,
         z |-> calculate_transform_from_entity_instance(lid).z,
         tileset |-> IF IsSome(entity_instance.tile)
                        /\ Unwrap(entity_instance.tile).tileset_uid \in images
                     THEN Some(Unwrap(entity_instance.tile).tileset_uid) ELSE None,
         tileset_definition |->
                     IF IsSome(entity_instance.tile)
                        /\ Unwrap(entity_instance.tile).tileset_uid \in defs
                     THEN Some(Unwrap(entity_instance.tile).tileset_uid) ELSE None,
         behavior |-> ResolveEntityBehavior(layer_instance, entity_instance, entity_map)]]

\* Lines 274-276 and 313-318: a layer that names a tileset needs its
\* definition and its image; each is an unwrap.
TilesetLookupPanics(layer_instance, defs, images) ==
    /\ IsSome(layer_instance.tileset_def_uid)
    /\ \/ Unwrap(layer_instance.tileset_def_uid) \notin defs
       \/ Unwrap(layer_instance.tileset_def_uid) \notin images

\* MapSize times CHUNK_SIZE (lines 269-272): the cells the layer builder has.
ChunkedCells(cells) == ((cells + CHUNK_SIZE - 1) \div CHUNK_SIZE) * CHUNK_SIZE
InLayerBuilder(layer_instance, tile_pos) ==
    /\ tile_pos[1] >= 0 /\ tile_pos[1] < ChunkedCells(layer_instance.c_wid)
    /\ tile_pos[2] >= 0 /\ tile_pos[2] < ChunkedCells(layer_instance.c_hei)

\* set_all_tiles_with_func / LayerBuilder::new_batch over the tile maker of a
\* partition: the bundle of every cell of the builder the maker has a tile for.
TileBundles(layer_instance, map) ==
    [tile_pos \in {q \in DOMAIN map : InLayerBuilder(layer_instance, q)} |->
        Unwrap(tile_pos_to_tile_bundle_maker(map, tile_pos))]

\* The same over the bundle maker of an int-grid layer without a tileset.
IntGridBundles(layer_instance, map) ==
    [tile_pos \in {q \in DOMAIN map : InLayerBuilder(layer_instance, q)
                                       /\ IsSome(int_grid_nonzero_bundle_maker(map, q))} |->
        Unwrap(int_grid_nonzero_bundle_maker(map, tile_pos))]

\* `if i == 0` with the test dropped.
EmitsIntGridCellsAlways(i) == TRUE

\* `if i == 0` (line 362): the partition that gets the int-grid cells.
EmitsIntGridCells(i) == i = 0

\* The loop of lines 363-407 from index i on: a marker per non-zero value, in
\* index order, until an index the decode refuses (.expect).
RECURSIVE IntGridCells(_, _, _, _, _, _)
IntGridCells(layer_instance, l, lid, int_cell_map, i, acc) ==
    IF i >= Len(layer_instance.int_grid_csv) THEN [commands |-> acc, panicked |-> FALSE]
    ELSE LET value == layer_instance.int_grid_csv[i + 1]
             tile_pos == int_grid_index_to_tile_pos(i, AsU32(layer_instance.c_wid),
                                                    AsU32(layer_instance.c_hei))
         IN  IF ~IsNonzero(value)
             THEN IntGridCells(layer_instance, l, lid, int_cell_map, i + 1, acc)
             ELSE IF tile_pos = None
             THEN [commands |-> acc, panicked |-> TRUE]
             ELSE IntGridCells(layer_instance, l, lid, int_cell_map, i + 1,
                      Append(acc, [kind |-> "int_cell",
                                   layer |-> l,
                                   csv_index |-> i,
                                   value |-> value,
                                   tile_pos |-> Unwrap(tile_pos),
                                   z |-> lid,
                                   parent |-> lid,
                                   behavior |-> ResolveIntCellBehavior(layer_instance, value,
                                                                       int_cell_map)]))

\* The sub-layer a partition becomes (lines 434-444): map.add_layer at layer_id.
SubLayer(l, i, lid, tiles) ==
    [kind |-> "layer", layer |-> l, partition |-> i, depth |-> lid, tiles |-> tiles]

\* The loop over the partitions (lines 323-446) from partition i (0-based) on:
\* the commands it queues, the layer_id it leaves, and whether it panicked.
RECURSIVE SpawnPartitions(_, _, _, _, _, _, _, _)
SpawnPartitions(layer_instance, l, parts, i, lid, checks, int_cell_map, acc) ==
    IF i >= Len(parts) THEN [commands |-> acc, layer_id |-> lid, panicked |-> FALSE]
    ELSE
    LET part == parts[i + 1]
        is_int_grid == layer_instance.layer_instance_type = "IntGrid"
        bound == IsSome(layer_instance.tileset_def_uid)
        tm == grid_tile_map(checks, layer_instance.c_hei, layer_instance.grid_size, part)
        nm == nonzero_map(layer_instance.int_grid_csv, layer_instance.c_wid,
                          layer_instance.c_hei)
        maker_panicked == IF is_int_grid /\ ~bound THEN nm.panicked ELSE tm.panicked
        tiles == IF is_int_grid /\ ~bound
                 THEN IntGridBundles(layer_instance, nm.map)
                 ELSE TileBundles(layer_instance, tm.map)
        cells == IF is_int_grid /\ EmitsIntGridCells(i)
                 THEN IntGridCells(layer_instance, l, lid, int_cell_map, 0, <<>>)
                 ELSE [commands |-> <<>>, panicked |-> FALSE]
    IN  IF maker_panicked
        THEN [commands |-> acc, layer_id |-> lid, panicked |-> TRUE]
        ELSE IF cells.panicked
        THEN [commands |-> acc \o cells.commands, layer_id |-> lid, panicked |-> TRUE]
        ELSE SpawnPartitions(layer_instance, l, parts, i + 1, lid + 1, checks, int_cell_map,
                 (acc \o cells.commands) \o <<SubLayer(l, i, lid, tiles)>>)

\* The `_` arm of the match (lines 263-447) for one layer.
SpawnTileLayer(layer_instance, l, lid, checks, defs, images, int_cell_map) ==
    IF TilesetLookupPanics(layer_instance, defs, images)
    THEN [commands |-> <<>>, layer_id |-> lid, panicked |-> TRUE]
    ELSE SpawnPartitions(layer_instance, l,
             layer_grid_tiles(layer_instance.grid_tiles \o layer_instance.auto_layer_tiles),
             0, lid, checks, int_cell_map, <<>>)

----------------------------------------------------------------------------
\* The values the variables of a specification's idle parts keep.

TilesIdle ==
    /\ grid_tiles = <<>>
    /\ layer_height_in_tiles = 0
    /\ layer_grid_size = 1
    /\ overflow_checks = FALSE
    /\ layered_grid_tiles = None
    /\ tile_makers = <<>>

IntGridIdle ==
    /\ int_grid_csv = <<>>
    /\ layer_width_in_tiles = 0
    /\ int_grid_height = 0
    /\ nonzero_maker = None

SpawnIdle ==
    /\ level = None
    /\ tileset_definition_map = {}
    /\ tileset_map = {}
    /\ ldtk_entity_map = EmptyMap
    /\ ldtk_int_cell_map = EmptyMap
    /\ layers_done = 0
    /\ layer_id = 0
    /\ commands = <<>>
    /\ status = "done"

WorldIdle ==
    /\ ldtk_events = <<>>
    /\ ldtk_world_query = <<>>
    /\ ldtk_assets = EmptyMap
    /\ changed_ldtks = <<>>
    /\ events_read = 0
    /\ respawned = 0
    /\ world_commands = <<>>
    /\ world_status = "done"

----------------------------------------------------------------------------
\* SpecTiles: spawn_level's use of the two functions on one layer's tile list
\* (systems.rs 320-323, 338-342, 417-421).

SeqsUpTo(S, n) == UNION {[1..k -> S] : k \in 0..n}

TileUniverse ==
    {[px |-> <<x, y>>, t |-> t, f |-> 0] : x \in PxXValues, y \in PxYValues, t \in TValues}

InitTilesWith(universe) ==
    /\ grid_tiles \in SeqsUpTo(universe, MaxTiles)
    /\ layer_height_in_tiles \in LayerHeights
    /\ layer_grid_size \in GridSizes
    /\ overflow_checks \in BOOLEAN
    /\ layered_grid_tiles = None
    /\ tile_makers = <<>>
    /\ IntGridIdle
    /\ SpawnIdle
    /\ WorldIdle

InitTiles == InitTilesWith(TileUniverse)

\* layer_grid_tiles(grid_tiles) is evaluated (line 323).
PartitionTiles ==
    /\ layered_grid_tiles = None
    /\ layered_grid_tiles' = Some(layer_grid_tiles(grid_tiles))
    /\ UNCHANGED <<grid_tiles, layer_height_in_tiles, layer_grid_size, overflow_checks,
                   tile_makers>>
    /\ UNCHANGED <<intGridVars, spawnVars, worldVars>>

TilesPanicked ==
    tile_makers # <<>> /\ tile_makers[Len(tile_makers)].panicked

\* One turn of the loop over the partitions: the tile maker of the next
\* partition is built; a panic ends the loop.
BuildTileMaker ==
    /\ IsSome(layered_grid_tiles)
    /\ Len(tile_makers) < Len(Unwrap(layered_grid_tiles))
    /\ ~TilesPanicked
    /\ tile_makers' = Append(tile_makers,
            grid_tile_map(overflow_checks, layer_height_in_tiles, layer_grid_size,
                          Unwrap(layered_grid_tiles)[Len(tile_makers) + 1]))
    /\ UNCHANGED <<grid_tiles, layer_height_in_tiles, layer_grid_size, overflow_checks,
                   layered_grid_tiles>>
    /\ UNCHANGED <<intGridVars, spawnVars, worldVars>>

NextTiles == PartitionTiles \/ BuildTileMaker

SpecTiles == InitTiles /\ [][NextTiles]_vars

\* Every partition has its tile maker and none panicked.
TilesBuilt ==
    /\ IsSome(layered_grid_tiles)
    /\ Len(tile_makers) = Len(Unwrap(layered_grid_tiles))
    /\ ~TilesPanicked

----------------------------------------------------------------------------
\* Helpers of the properties of layer_grid_tiles.

Range(s) == {s[i] : i \in DOMAIN s}
Count(s, x) == Cardinality({i \in DOMAIN s : s[i] = x})

RECURSIVE Flatten(_)
Flatten(ss) == IF ss = <<>> THEN <<>> ELSE Head(ss) \o Flatten(Tail(ss))

\* Which occurrence of its pixel position the i-th tile of s is (1 for the first).
Occurrence(s, i) == Cardinality({j \in 1..i : s[j].px = s[i].px})
\* The tiles of s at the indices idx, in the order of s.
SubSeqAt(s, idx) ==
    [m \in 1..Cardinality(idx) |->
        s[CHOOSE i \in idx : Cardinality({j \in idx : j <= i}) = m]]

\* C1: the partitions layer_grid_tiles returns hold no two tiles of the same
\* pixel position in one partition, and together they hold every tile of the
\* input as often as the input does.
C1_PartitionCorrect ==
    IsSome(layered_grid_tiles) =>
        LET parts == Unwrap(layered_grid_tiles)
            all == Flatten(parts)
        IN  /\ \A k \in DOMAIN parts : \A i, j \in DOMAIN parts[k] :
                   i # j => parts[k][i].px # parts[k][j].px
            /\ \A tile \in Range(grid_tiles) \cup Range(all) :
                   Count(all, tile) = Count(grid_tiles, tile)

\* Three tiles at one pixel position, two of them equal, were partitioned.
C1_Witness ==
    /\ IsSome(layered_grid_tiles)
    /\ Len(grid_tiles) = 3
    /\ Len(Unwrap(layered_grid_tiles)) = 3
    /\ grid_tiles[1] = grid_tiles[3]
    /\ grid_tiles[1] # grid_tiles[2]

\* C2: partition k (0-based) is exactly the tiles that are the (k+1)-th
\* occurrence of their pixel position in the input, in the input's order.
C2_PartitionByOccurrence ==
    IsSome(layered_grid_tiles) =>
        LET parts == Unwrap(layered_grid_tiles) IN
        /\ \A i \in DOMAIN grid_tiles : Occurrence(grid_tiles, i) <= Len(parts)
        /\ \A k \in DOMAIN parts :
               parts[k] = SubSeqAt(grid_tiles,
                              {i \in DOMAIN grid_tiles : Occurrence(grid_tiles, i) = k})

\* A colliding tile stood between two tiles of partition 0, and three tiles
\* collided in an order their texture indices show.
C2_Witness ==
    /\ IsSome(layered_grid_tiles)
    /\ Len(grid_tiles) = 3
    /\ \/ /\ grid_tiles[1].px = grid_tiles[2].px
          /\ grid_tiles[1].px # grid_tiles[3].px
          /\ grid_tiles[1].t # grid_tiles[2].t
          /\ Unwrap(layered_grid_tiles) = <<(<<grid_tiles[1], grid_tiles[3]>>), (<<grid_tiles[2]>>)>>
       \/ /\ grid_tiles[1].px = grid_tiles[2].px
          /\ grid_tiles[2].px = grid_tiles[3].px
          /\ grid_tiles[2].t # grid_tiles[3].t
          /\ Len(Unwrap(layered_grid_tiles)) = 3

\* C3 as claimed, for the tile lists that have no negative coordinate: once
\* every partition has its tile lookup, no two tiles of one partition have the
\* same tile position, and the lookups together have as many entries as the
\* layer has tiles.
RECURSIVE TotalEntries(_)
TotalEntries(makers) ==
    IF makers = <<>> THEN 0
    ELSE Cardinality(DOMAIN Head(makers).map) + TotalEntries(Tail(makers))

C3_NoTileOverwritten ==
    (TilesBuilt /\ \A i \in DOMAIN grid_tiles :
                      grid_tiles[i].px[1] >= 0 /\ grid_tiles[i].px[2] >= 0) =>
        LET parts == Unwrap(layered_grid_tiles) IN
        /\ \A k \in DOMAIN parts : \A i, j \in DOMAIN parts[k] :
               i # j => TilePosOf(layer_height_in_tiles, layer_grid_size, parts[k][i])
                        # TilePosOf(layer_height_in_tiles, layer_grid_size, parts[k][j])
        /\ TotalEntries(tile_makers) = Len(grid_tiles)

\* The tile position the specification's formula gives a tile: the column is
\* floor(px / grid_size), the row is height - floor(py / grid_size) - 1.
FlooredTilePos(height, grid_size, t) ==
    <<t.px[1] \div grid_size, height - (t.px[2] \div grid_size) - 1>>

\* A TilePos (two u32) is the position (c, r) of two integers.
IsPosition(tile_pos, cr) ==
    tile_pos[1] >= 0 /\ tile_pos[2] >= 0 /\ tile_pos = cr

\* The tile positions the tile maker is asked for: those of a grid that holds
\* every layer of LayerHeights.
QueriedPositions == (0..2) \X (0..2)

\* No two tiles of the list at one pixel position or, by the formula, at one
\* tile position.
CollisionFree(height, grid_size, tiles) ==
    \A i, j \in DOMAIN tiles :
        i # j => /\ tiles[i].px # tiles[j].px
                 /\ FlooredTilePos(height, grid_size, tiles[i])
                    # FlooredTilePos(height, grid_size, tiles[j])

\* C5 as claimed: for a collision-free tile list the tile maker returns, at the
\* position (floor(px / grid_size), height - floor(py / grid_size) - 1) of each
\* tile, that tile's texture index, and nothing at a position no tile has.
C5_TileMakerByFloor ==
    (TilesBuilt /\ CollisionFree(layer_height_in_tiles, layer_grid_size, grid_tiles)) =>
        LET map == tile_makers[1].map IN
        \A tile_pos \in QueriedPositions :
            LET at == {i \in DOMAIN grid_tiles :
                         IsPosition(tile_pos,
                             FlooredTilePos(layer_height_in_tiles, layer_grid_size,
                                            grid_tiles[i]))}
            IN  IF at = {}
                THEN tile_maker(map, tile_pos) = None
                ELSE /\ IsSome(tile_maker(map, tile_pos))
                     /\ \A i \in at :
                           Unwrap(tile_maker(map, tile_pos)).texture_index = grid_tiles[i].t

----------------------------------------------------------------------------
\* SpecFlips: the machine of SpecTiles on tile lists that vary the flip code.

\* The flip codes of the tiles: the four of the format, and one beyond them.
FlipCodes == 0..4

FlipTileUniverse ==
    {[px |-> <<x, 0>>, t |-> 1, f |-> f] : x \in {0, 2}, f \in FlipCodes}

InitFlips == InitTilesWith(FlipTileUniverse)

SpecFlips == InitFlips /\ [][NextTiles]_vars

\* C6: the tile the maker produces for a tile instance of flip code f has
\* (flip_x, flip_y) = (false, false) for f = 0, (true, false) for f = 1,
\* (false, true) for f = 2 and (true, true) for f = 3.
C6_FlipDecodeTable ==
    \A k \in DOMAIN tile_makers : \A tile_pos \in DOMAIN tile_makers[k].map :
        LET f == tile_makers[k].map[tile_pos].f
            tile == Unwrap(tile_maker(tile_makers[k].map, tile_pos))
        IN  /\ f = 0 => tile.flip_x = FALSE /\ tile.flip_y = FALSE
            /\ f = 1 => tile.flip_x = TRUE /\ tile.flip_y = FALSE
            /\ f = 2 => tile.flip_x = FALSE /\ tile.flip_y = TRUE
            /\ f = 3 => tile.flip_x = TRUE /\ tile.flip_y = TRUE

\* The tile makers of one layer were built over tiles of the flip codes 1, 2
\* and 3, and each returns its tile.
C6_Witness ==
    /\ TilesBuilt
    /\ \A f \in 1..3 : \E k \in DOMAIN tile_makers :
           \E tile_pos \in DOMAIN tile_makers[k].map :
               /\ tile_makers[k].map[tile_pos].f = f
               /\ IsSome(tile_maker(tile_makers[k].map, tile_pos))

----------------------------------------------------------------------------
\* SpecIntGrid: the bundle maker of an int-grid layer that has no tileset
\* (systems.rs 350-358), for bounded int-grid arrays.

\* The widest and highest int-grid layer, in cells.
MaxDim == 2
\* The values of the int-grid cells.
CsvValues == {-1, 0, 1}

\* The array has a value per cell, or one less, or one more.
CsvLengths(width, height) ==
    {n \in {width * height - 1, width * height, width * height + 1} : n >= 0}

InitIntGrid ==
    /\ layer_width_in_tiles \in 0..MaxDim
    /\ int_grid_height \in 0..MaxDim
    /\ \E n \in CsvLengths(layer_width_in_tiles, int_grid_height) :
           int_grid_csv \in [1..n -> CsvValues]
    /\ nonzero_maker = None
    /\ TilesIdle
    /\ SpawnIdle
    /\ WorldIdle

BuildNonzeroMaker ==
    /\ nonzero_maker = None
    /\ nonzero_maker' = Some(nonzero_map(int_grid_csv, layer_width_in_tiles, int_grid_height))
    /\ UNCHANGED <<int_grid_csv, layer_width_in_tiles, int_grid_height>>
    /\ UNCHANGED <<tileVars, spawnVars, worldVars>>

NextIntGrid == BuildNonzeroMaker

SpecIntGrid == InitIntGrid /\ [][NextIntGrid]_vars

\* The positions the bundle maker is asked for: the grid and a margin around it.
IntGridQueried == (0..MaxDim) \X (0..MaxDim)

\* C4: for an int-grid array of width * height values, the bundle maker over
\* the invisible-tile maker returns a tile at P exactly when P is inside the
\* grid and the value at the index that decodes to P is not 0.
C4_IntGridGating ==
    (/\ IsSome(nonzero_maker)
     /\ Len(int_grid_csv) = layer_width_in_tiles * int_grid_height) =>
        /\ ~Unwrap(nonzero_maker).panicked
        /\ \A tile_pos \in IntGridQueried :
               IsSome(int_grid_nonzero_bundle_maker(Unwrap(nonzero_maker).map, tile_pos))
               <=> /\ tile_pos[1] < layer_width_in_tiles
                   /\ tile_pos[2] < int_grid_height
                   /\ \E i \in 0..(Len(int_grid_csv) - 1) :
                         /\ int_grid_index_to_tile_pos(i, layer_width_in_tiles,
                                                       int_grid_height) = Some(tile_pos)
                         /\ int_grid_csv[i + 1] # 0

\* The maker of a full 2 x 2 grid was built: the cell of a negative value has
\* a tile, the cell of a 0 has none.
C4_Witness ==
    /\ IsSome(nonzero_maker)
    /\ layer_width_in_tiles = 2
    /\ int_grid_height = 2
    /\ Len(int_grid_csv) = 4
    /\ int_grid_csv[1] = -1
    /\ int_grid_csv[4] = 0
    /\ IsSome(int_grid_nonzero_bundle_maker(Unwrap(nonzero_maker).map, <<0, 1>>))
    /\ int_grid_nonzero_bundle_maker(Unwrap(nonzero_maker).map, <<1, 0>>) = None

\* The cells of the grid of the state, and the indices of its cells.
GridCells == (0..(layer_width_in_tiles - 1)) \X (0..(int_grid_height - 1))
GridIndices == 0..(layer_width_in_tiles * int_grid_height - 1)
\* The indices past the grid the decode is asked for.
PastGridIndices ==
    (layer_width_in_tiles * int_grid_height)
        ..(layer_width_in_tiles * int_grid_height + MaxDim)

\* C12: for the width and height of the state, the decode maps the indices
\* 0..width*height-1 one-to-one onto the cells of the grid, (height - 1 - row)
\* * width + column gives back the index of a decoded cell, and the decode
\* has no result from width*height on; so the map the bundle maker collects
\* has one entry per index, at the cell of that index, and the collect
\* panics exactly when the array is longer than the grid.
C12_IndexDecodeBijection ==
    LET width == layer_width_in_tiles
        height == int_grid_height
        decode(i) == int_grid_index_to_tile_pos(i, width, height)
    IN  /\ \A i \in GridIndices :
               /\ IsSome(decode(i))
               /\ Unwrap(decode(i)) \in GridCells
               /\ Unwrap(decode(i))[1] = i % width
               /\ Unwrap(decode(i))[2] = height - (i \div width) - 1
               /\ (height - 1 - Unwrap(decode(i))[2]) * width + Unwrap(decode(i))[1] = i
        /\ \A i, j \in GridIndices : decode(i) = decode(j) => i = j
        /\ \A tile_pos \in GridCells : \E i \in GridIndices : decode(i) = Some(tile_pos)
        /\ \A i \in PastGridIndices : decode(i) = None
        /\ IsSome(nonzero_maker) =>
               /\ Unwrap(nonzero_maker).panicked <=> Len(int_grid_csv) > width * height
               /\ ~Unwrap(nonzero_maker).panicked =>
                      /\ Cardinality(DOMAIN Unwrap(nonzero_maker).map) = Len(int_grid_csv)
                      /\ \A tile_pos \in DOMAIN Unwrap(nonzero_maker).map :
                             /\ tile_pos \in GridCells
                             /\ (height - 1 - tile_pos[2]) * width + tile_pos[1]
                                   < Len(int_grid_csv)
                             /\ Unwrap(nonzero_maker).map[tile_pos]
                                   = IsNonzero(int_grid_csv[(height - 1 - tile_pos[2]) * width
                                                            + tile_pos[1] + 1])

\* The maker of a full 2 x 2 grid was built: index 0 is the top-left cell,
\* row 1, index 3 the bottom-right cell, row 0, and the map has the value of
\* index 1 at (1, 1).
C12_Witness ==
    /\ IsSome(nonzero_maker)
    /\ ~Unwrap(nonzero_maker).panicked
    /\ layer_width_in_tiles = 2
    /\ int_grid_height = 2
    /\ Len(int_grid_csv) = 4
    /\ int_grid_index_to_tile_pos(0, 2, 2) = Some(<<0, 1>>)
    /\ int_grid_index_to_tile_pos(3, 2, 2) = Some(<<1, 0>>)
    /\ int_grid_csv[2] = 1
    /\ int_grid_csv[4] = 0
    /\ Unwrap(nonzero_maker).map[<<1, 1>>] = TRUE
    /\ Unwrap(nonzero_maker).map[<<1, 0>>] = FALSE

----------------------------------------------------------------------------
\* Spec: one spawn_level pass (systems.rs 199-451) over a bounded level.

\* The most layer instances a level has.
MaxLayers == 2
\* The tileset uids the layers and entities name.
TilesetUids == {1, 2}

TileAt(x, y, t) == [px |-> <<x, y>>, t |-> t, f |-> 0]

LayerInstance(type, identifier, uid, wid, hei, tiles, auto_tiles, csv, entities) ==
    [layer_instance_type |-> type, identifier |-> identifier, tileset_def_uid |-> uid,
     c_wid |-> wid, c_hei |-> hei, grid_size |-> 2,
     grid_tiles |-> tiles, auto_layer_tiles |-> auto_tiles,
     int_grid_csv |-> csv, entity_instances |-> entities]

EntityInstance(identifier, tile) == [identifier |-> identifier, tile |-> tile]

\* The layer instances a level is made of: Entities layers of two identifiers,
\* tile layers with and without a tileset and with stacked tiles, int-grid
\* layers with and without a tileset, and int-grid layers whose array is
\* longer than the grid.
LayerUniverse ==
    { LayerInstance("Entities", "Entities", None, 2, 2, <<>>, <<>>, <<>>,
          <<EntityInstance("Player", Some([tileset_uid |-> 2])),
            EntityInstance("Chest", None)>>),
      LayerInstance("Entities", "Other", None, 2, 2, <<>>, <<>>, <<>>,
          <<EntityInstance("Player", None)>>),
      LayerInstance("Tiles", "Ground", Some(1), 2, 2,
          <<TileAt(0, 0, 1), TileAt(0, 0, 2), TileAt(2, 0, 1)>>, <<>>, <<>>, <<>>),
      LayerInstance("AutoLayer", "Auto", None, 2, 2,
          <<>>, <<TileAt(0, 2, 1)>>, <<>>, <<>>),
      LayerInstance("IntGrid", "Walls", Some(1), 2, 2,
          <<>>, <<TileAt(0, 0, 1), TileAt(0, 0, 2)>>, <<1, 0, 2, 1>>, <<>>),
      LayerInstance("IntGrid", "Zones", None, 2, 1,
          <<>>, <<>>, <<1, -1>>, <<>>),
      LayerInstance("IntGrid", "Walls", Some(1), 1, 1,
          <<>>, <<>>, <<1, 2>>, <<>>),
      LayerInstance("IntGrid", "Zones", None, 1, 1,
          <<>>, <<>>, <<1, 0>>, <<>>) }

\* The keys a behavior may be registered under: one entity identifier and one
\* int-grid value, each under two layer identifiers.  The two registries of a
\* pass are registered for the same choice of the two layers.
EntityKeys == <<(<<"Entities", "Player">>), (<<"Other", "Player">>)>>
IntCellKeys == <<(<<"Walls", 1>>), (<<"Zones", 1>>)>>
Registered(key) == <<"registered", key[1], key[2]>>
Registry(keys) == [k \in keys |-> Registered(k)]

Init ==
    /\ level \in {None} \cup {Some(ls) : ls \in SeqsUpTo(LayerUniverse, MaxLayers)}
    /\ tileset_definition_map \in SUBSET TilesetUids
    /\ tileset_map \in SUBSET TilesetUids
    /\ \E which \in SUBSET {1, 2} :
           /\ ldtk_entity_map = Registry({EntityKeys[i] : i \in which})
           /\ ldtk_int_cell_map = Registry({IntCellKeys[i] : i \in which})
    /\ layers_done = 0
    /\ layer_id = 0
    /\ commands = <<>>
    /\ status = "running"
    /\ grid_tiles = <<>>
    /\ layer_height_in_tiles = 0
    /\ layer_grid_size = 1
    /\ overflow_checks \in BOOLEAN
    /\ layered_grid_tiles = None
    /\ tile_makers = <<>>
    /\ IntGridIdle
    /\ WorldIdle

\* layer_instances.iter().rev(): the layer the loop is at, and its place in
\* level.layer_instances.
LayerCount == IF IsSome(level) THEN Len(Unwrap(level)) ELSE 0
CurrentIndex == LayerCount - layers_done
CurrentLayer == Unwrap(level)[CurrentIndex]

\* One turn of the loop on an Entities layer (lines 217-262).
SpawnEntitiesLayer ==
    /\ status = "running"
    /\ layers_done < LayerCount
    /\ CurrentLayer.layer_instance_type = "Entities"
    /\ commands' = commands \o EntityPlacements(CurrentLayer, CurrentIndex, layer_id,
                                                tileset_definition_map, tileset_map,
                                                ldtk_entity_map)
    /\ layers_done' = layers_done + 1
    /\ UNCHANGED <<level, tileset_definition_map, tileset_map, ldtk_entity_map,
                   ldtk_int_cell_map, layer_id, status>>
    /\ UNCHANGED <<tileVars, intGridVars, worldVars>>

\* One turn of the loop on a Tiles, AutoLayer or IntGrid layer (lines 263-447):
\* a panic ends the pass with the commands queued before it.
SpawnTilesLayer ==
    /\ status = "running"
    /\ layers_done < LayerCount
    /\ CurrentLayer.layer_instance_type # "Entities"
    /\ LET r == SpawnTileLayer(CurrentLayer, CurrentIndex, layer_id, overflow_checks,
                               tileset_definition_map, tileset_map, ldtk_int_cell_map)
       IN  /\ commands' = commands \o r.commands
           /\ layer_id' = r.layer_id
           /\ status' = IF r.panicked THEN "panicked" ELSE status
           /\ layers_done' = IF r.panicked THEN layers_done ELSE layers_done + 1
    /\ UNCHANGED <<level, tileset_definition_map, tileset_map, ldtk_entity_map,
                   ldtk_int_cell_map>>
    /\ UNCHANGED <<tileVars, intGridVars, worldVars>>

\* The loop is over, or the level has no layer instances (line 213).
FinishSpawn ==
    /\ status = "running"
    /\ layers_done = LayerCount
    /\ status' = "done"
    /\ UNCHANGED <<level, tileset_definition_map, tileset_map, ldtk_entity_map,
                   ldtk_int_cell_map, layers_done, layer_id, commands>>
    /\ UNCHANGED <<tileVars, intGridVars, worldVars>>

Next == SpawnEntitiesLayer \/ SpawnTilesLayer \/ FinishSpawn

Spec == Init /\ [][Next]_vars

----------------------------------------------------------------------------
\* Properties of the spawn pass.

\* The place in the processing order (1 for the first) of the layer at place
\* l of level.layer_instances.
ProcessingOrder(l) == LayerCount - l + 1

\* The depth of a placement: the depth of a sub-layer, the z of an entity or
\* of an int-grid cell.
DepthOf(c) == IF c.kind = "layer" THEN c.depth ELSE c.z

\* C7 as claimed: the placements of a layer processed earlier are all
\* strictly less deep than those of a layer processed later, Entities layers
\* included, and within a layer every partition is deeper than the one before.
C7_DepthStrictlyIncreasing ==
    \A a, b \in DOMAIN commands :
        /\ ProcessingOrder(commands[a].layer) < ProcessingOrder(commands[b].layer)
              => DepthOf(commands[a]) < DepthOf(commands[b])
        /\ (/\ commands[a].kind = "layer" /\ commands[b].kind = "layer"
            /\ commands[a].layer = commands[b].layer
            /\ commands[a].partition < commands[b].partition)
              => commands[a].depth < commands[b].depth

\* The int-grid cells queued for the layer at place l, in the order queued.
IsCellOf(c, l) == c.kind = "int_cell" /\ c.layer = l
RECURSIVE CellsOf(_, _)
CellsOf(cmds, l) ==
    IF cmds = <<>> THEN <<>>
    ELSE IF IsCellOf(Head(cmds), l) THEN <<Head(cmds)>> \o CellsOf(Tail(cmds), l)
    ELSE CellsOf(Tail(cmds), l)

\* The layer at place l has been processed to its end.
Processed(l) == l \in 1..LayerCount /\ ProcessingOrder(l) <= layers_done

\* C8: for every IntGrid layer the pass has processed, with or without a
\* tileset and whatever its partitions, the markers queued are one per
\* non-zero cell, in increasing index order, each with the raw value of its
\* cell, and each attached to the sub-layer of partition 0 of that layer.
C8_IntGridMarkers ==
    \A l \in 1..LayerCount :
        (Processed(l) /\ Unwrap(level)[l].layer_instance_type = "IntGrid") =>
            LET csv == Unwrap(level)[l].int_grid_csv
                nonzero == {i \in DOMAIN csv : csv[i] # 0}
                cells == CellsOf(commands, l)
            IN  /\ Len(cells) = Cardinality(nonzero)
                /\ \A m \in DOMAIN cells :
                       /\ cells[m].csv_index + 1 \in nonzero
                       /\ Cardinality({i \in nonzero : i <= cells[m].csv_index + 1}) = m
                       /\ cells[m].value = csv[cells[m].csv_index + 1]
                       /\ \E s \in DOMAIN commands :
                             /\ commands[s].kind = "layer"
                             /\ commands[s].layer = l
                             /\ commands[s].partition = 0
                             /\ commands[s].depth = cells[m].parent

\* An IntGrid layer with a tileset and two partitions, and one without a
\* tileset, were processed and have their markers, a negative value among them.
C8_Witness ==
    /\ status = "done"
    /\ \E a, b \in DOMAIN commands :
           /\ commands[a].kind = "layer" /\ commands[a].partition = 1
           /\ Unwrap(level)[commands[a].layer].layer_instance_type = "IntGrid"
           /\ commands[b].kind = "int_cell" /\ commands[b].layer = commands[a].layer
           /\ commands[b].value = 2
    /\ \E c \in DOMAIN commands :
           /\ commands[c].kind = "int_cell" /\ commands[c].value = -1
           /\ Unwrap(level)[commands[c].layer].tileset_def_uid = None

\* C9: the behavior of every entity and of every int-grid cell spawned is the
\* one registered under exactly its layer identifier and its entity
\* identifier or int-grid value, and the default when nothing is registered
\* under that pair, whatever is registered under other pairs.
C9_BehaviorResolution ==
    \A c \in DOMAIN commands :
        LET layer_identifier == Unwrap(level)[commands[c].layer].identifier IN
        /\ commands[c].kind = "entity" =>
              LET key == <<layer_identifier, commands[c].identifier>> IN
              /\ key \in DOMAIN ldtk_entity_map => commands[c].behavior = Registered(key)
              /\ key \notin DOMAIN ldtk_entity_map
                    => commands[c].behavior = default_ldtk_entity
        /\ commands[c].kind = "int_cell" =>
              LET key == <<layer_identifier, commands[c].value>> IN
              /\ key \in DOMAIN ldtk_int_cell_map => commands[c].behavior = Registered(key)
              /\ key \notin DOMAIN ldtk_int_cell_map
                    => commands[c].behavior = default_ldtk_int_cell

\* An entity got the default although its identifier is registered under
\* another layer, and an entity of that other layer got the registered one.
C9_Witness ==
    /\ DOMAIN ldtk_entity_map = {<<"Other", "Player">>}
    /\ \E a, b \in DOMAIN commands :
           /\ commands[a].kind = "entity" /\ commands[a].identifier = "Player"
           /\ commands[a].behavior = default_ldtk_entity
           /\ commands[b].kind = "entity" /\ commands[b].identifier = "Player"
           /\ commands[b].behavior = Registered(<<"Other", "Player">>)

\* The tileset uids a layer instance references: its own, and those of the
\* tiles of its entity instances.
ReferencedTilesets(layer_instance) ==
    (IF IsSome(layer_instance.tileset_def_uid)
     THEN {Unwrap(layer_instance.tileset_def_uid)} ELSE {})
    \cup {Unwrap(layer_instance.entity_instances[e].tile).tileset_uid :
            e \in {e \in DOMAIN layer_instance.entity_instances :
                      IsSome(layer_instance.entity_instances[e].tile)}}

\* C10 as claimed: a pass over a level that references a tileset uid without
\* a definition, in a layer or in the tile of an entity, does not end normally.
C10_MissingTilesetIsFatal ==
    status = "done" =>
        \A l \in 1..LayerCount :
            ReferencedTilesets(Unwrap(level)[l]) \subseteq tileset_definition_map

\* The layer ids Map::layers holds: map.add_layer (line 444) inserts the id of
\* a sub-layer into the Map of the level as soon as the sub-layer is built.
MapLayers == {commands[c].depth : c \in {c \in DOMAIN commands : commands[c].kind = "layer"}}

\* The placements written for the layer at place l.
PlacementsOf(l) == {c \in DOMAIN commands : commands[c].layer = l}

\* C11 as claimed: a pass that hit a fatal condition has written no placement,
\* neither to the command queue nor to the Map, also not those of the layers
\* before the faulty one; a pass that hit none has written, for every layer,
\* a placement per entity instance or at least one sub-layer.
C11_AllOrNothing ==
    /\ status = "panicked" => (commands = <<>> /\ MapLayers = {})
    /\ status = "done" =>
          \A l \in 1..LayerCount :
              LET layer_instance == Unwrap(level)[l] IN
              IF layer_instance.layer_instance_type = "Entities"
              THEN Cardinality({c \in PlacementsOf(l) : commands[c].kind = "entity"})
                       = Len(layer_instance.entity_instances)
              ELSE \E c \in PlacementsOf(l) : commands[c].kind = "layer"

----------------------------------------------------------------------------
\* SpecWorld: one run of process_ldtk_world (systems.rs 75-140) over the
\* asset events of one update.

\* The most asset events an update brings, and the most LDtk world entities.
MaxEvents == 3
MaxWorlds == 2
\* The asset handles.
Handles == {"h1", "h2"}
EventKinds == {"Created", "Modified", "Removed"}
AssetEvent(kind, handle) == [kind |-> kind, handle |-> handle]
EventUniverse == {AssetEvent(kind, handle) : kind \in EventKinds, handle \in Handles}
\* A LevelSelection is held as the set of the level indices it matches.
LevelSelections == {{0}, {1}}
\* The number of levels a project has.
AssetLevelCounts == {2}

WorldEntity(entity, handle, level_selection, added) ==
    [entity |-> entity, handle |-> handle, level_selection |-> level_selection,
     added |-> added]

InitWorld ==
    /\ ldtk_events \in SeqsUpTo(EventUniverse, MaxEvents)
    /\ \E n \in 0..MaxWorlds :
           \E f \in [1..n -> Handles \X LevelSelections \X BOOLEAN] :
               ldtk_world_query = [k \in 1..n |-> WorldEntity(k, f[k][1], f[k][2], f[k][3])]
    /\ \E loaded \in SUBSET Handles : ldtk_assets \in [loaded -> AssetLevelCounts]
    /\ changed_ldtks = <<>>
    /\ events_read = 0
    /\ respawned = 0
    /\ world_commands = <<>>
    /\ world_status = "events"
    /\ TilesIdle
    /\ IntGridIdle
    /\ SpawnIdle

\* The match on one event (lines 86-104): Created and Modified push the
\* handle, Removed keeps the entries the filter's closure is true of.
OnAssetEvent(changed, event) ==
    IF event.kind = "Removed"
    THEN SelectSeq(changed, LAMBDA changed_handle : changed_handle = event.handle)
    ELSE Append(changed, event.handle)

\* new_ldtks.iter() (lines 107-109): the handles the Added filter lets through.
NewLdtks(query) ==
    LET new_ldtks == SelectSeq(query, LAMBDA w : w.added)
    IN  [k \in DOMAIN new_ldtks |-> new_ldtks[k].handle]

\* LevelSelection::is_match on the level of index i.
is_match(level_selection, i) == i \in level_selection

\* The loop over the levels of the asset (lines 119-135) from index i on: a
\* level entity, with the Map of that index and the world entity as Parent,
\* for every level the selection matches.  commands.spawn() gives a new entity.
RECURSIVE SpawnLevels(_, _, _, _)
SpawnLevels(world, levels, i, acc) ==
    IF i >= levels THEN acc
    ELSE IF is_match(world.level_selection, i)
    THEN SpawnLevels(world, levels, i + 1,
             Append(acc, [kind |-> "spawn_level",
                          level_entity |-> Len(acc) + 1,
                          level_index |-> AsU16(i),
                          parent |-> world.entity]))
    ELSE SpawnLevels(world, levels, i + 1, acc)

\* The inner loop of lines 112-137 from place k of the query on, for one
\* changed handle: despawn_descendants and the level entities of every world
\* entity that has the handle.
RECURSIVE RespawnWorlds(_, _, _, _, _)
RespawnWorlds(query, assets, changed_ldtk, k, acc) ==
    IF k > Len(query) THEN acc
    ELSE IF query[k].handle # changed_ldtk
    THEN RespawnWorlds(query, assets, changed_ldtk, k + 1, acc)
    ELSE LET despawned == Append(acc, [kind |-> "despawn_descendants",
                                       entity |-> query[k].entity])
         IN  RespawnWorlds(query, assets, changed_ldtk, k + 1,
                 IF query[k].handle \in DOMAIN assets
                 THEN SpawnLevels(query[k], assets[query[k].handle], 0, despawned)
                 ELSE despawned)

\* One turn of the loop over the events (lines 85-105).
ReadEvent ==
    /\ world_status = "events"
    /\ events_read < Len(ldtk_events)
    /\ changed_ldtks' = OnAssetEvent(changed_ldtks, ldtk_events[events_read + 1])
    /\ events_read' = events_read + 1
    /\ UNCHANGED <<ldtk_events, ldtk_world_query, ldtk_assets, respawned, world_commands,
                   world_status>>
    /\ UNCHANGED <<tileVars, intGridVars, spawnVars>>

\* The events are read: the newly added handles are pushed (lines 107-109).
PushNewLdtks ==
    /\ world_status = "events"
    /\ events_read = Len(ldtk_events)
    /\ changed_ldtks' = changed_ldtks \o NewLdtks(ldtk_world_query)
    /\ world_status' = "respawn"
    /\ UNCHANGED <<ldtk_events, ldtk_world_query, ldtk_assets, events_read, respawned,
                   world_commands>>
    /\ UNCHANGED <<tileVars, intGridVars, spawnVars>>

\* One turn of the loop over the changed handles (lines 111-139).
RespawnChanged ==
    /\ world_status = "respawn"
    /\ respawned < Len(changed_ldtks)
    /\ world_commands' = RespawnWorlds(ldtk_world_query, ldtk_assets,
                                       changed_ldtks[respawned + 1], 1, world_commands)
    /\ respawned' = respawned + 1
    /\ UNCHANGED <<ldtk_events, ldtk_world_query, ldtk_assets, changed_ldtks, events_read,
                   world_status>>
    /\ UNCHANGED <<tileVars, intGridVars, spawnVars>>

\* The system returns.
FinishWorld ==
    /\ world_status = "respawn"
    /\ respawned = Len(changed_ldtks)
    /\ world_status' = "done"
    /\ UNCHANGED <<ldtk_events, ldtk_world_query, ldtk_assets, changed_ldtks, events_read,
                   respawned, world_commands>>
    /\ UNCHANGED <<tileVars, intGridVars, spawnVars>>

NextWorld == ReadEvent \/ PushNewLdtks \/ RespawnChanged \/ FinishWorld

SpecWorld == InitWorld /\ [][NextWorld]_vars

\* The handles that count as changed after the events `events`: those of a
\* Created or Modified event that no Removed event of the same handle follows.
KeptChanges(events) ==
    {events[k].handle :
        k \in {k \in DOMAIN events :
                  /\ events[k].kind # "Removed"
                  /\ \A r \in DOMAIN events :
                         (r > k /\ events[r].kind = "Removed")
                             => events[r].handle # events[k].handle}}

\* C13 as claimed: while the events are scanned, and when the scan is over,
\* the changed handles are those with a Created or Modified event that no
\* Removed event of the same handle follows; and at the end of the run every
\* world entity of such a handle has been respawned.
C13_RemovedIgnoresEarlierChanges ==
    /\ world_status = "events" =>
          Range(changed_ldtks) = KeptChanges(SubSeq(ldtk_events, 1, events_read))
    /\ world_status = "done" =>
          \A w \in DOMAIN ldtk_world_query :
              ldtk_world_query[w].handle \in KeptChanges(ldtk_events) =>
                  \E c \in DOMAIN world_commands :
                      /\ world_commands[c].kind = "despawn_descendants"
                      /\ world_commands[c].entity = ldtk_world_query[w].entity

\* C15 as claimed: one run queues, for every world entity, at most one
\* despawn_descendants, and at most one level entity per level index.
C15_RespawnedAtMostOnce ==
    \A a, b \in DOMAIN world_commands :
        a # b =>
            /\ ~(/\ world_commands[a].kind = "despawn_descendants"
                 /\ world_commands[b].kind = "despawn_descendants"
                 /\ world_commands[a].entity = world_commands[b].entity)
            /\ ~(/\ world_commands[a].kind = "spawn_level"
                 /\ world_commands[b].kind = "spawn_level"
                 /\ world_commands[a].parent = world_commands[b].parent
                 /\ world_commands[a].level_index = world_commands[b].level_index)

----------------------------------------------------------------------------
\* SpecLayers: layer_grid_tiles on the tile list of a layer taken alone (the
\* machine of SpecTiles) and on the layers of a spawn_level pass (Spec).

InitLayers == InitTiles \/ Init

\* A step of the tile machine, when no pass is under way.
TilesStep == SpawnIdle /\ NextTiles

NextLayers == TilesStep \/ Next

SpecLayers == InitLayers /\ [][NextLayers]_vars

\* The sub-layers queued for the layer at place l.
SubLayersOf(l) == {c \in PlacementsOf(l) : commands[c].kind = "layer"}

\* C14: layer_grid_tiles returns at least one partition, for the empty list
\* the one empty partition, and no partition after the first is empty; so
\* every Tiles, AutoLayer and IntGrid layer a pass has processed has one
\* sub-layer per partition, at least one, each at a depth index of its own,
\* the depth counter has passed all of them, and an IntGrid layer with no
\* tiles has the markers of all its non-zero cells.
C14_AtLeastOnePartition ==
    /\ IsSome(layered_grid_tiles) =>
          LET parts == Unwrap(layered_grid_tiles) IN
          /\ Len(parts) >= 1
          /\ grid_tiles = <<>> => parts = <<(<<>>)>>
          /\ \A k \in 2..Len(parts) : parts[k] # <<>>
    /\ MapLayers = 0..(layer_id - 1)
    /\ \A l \in 1..LayerCount :
          (Processed(l) /\ Unwrap(level)[l].layer_instance_type # "Entities") =>
              LET layer_instance == Unwrap(level)[l]
                  tiles == layer_instance.grid_tiles \o layer_instance.auto_layer_tiles
                  parts == layer_grid_tiles(tiles)
              IN  /\ Len(parts) >= 1
                  /\ \A k \in 2..Len(parts) : parts[k] # <<>>
                  /\ Cardinality(SubLayersOf(l)) = Len(parts)
                  /\ {commands[c].partition : c \in SubLayersOf(l)} = 0..(Len(parts) - 1)
                  /\ Cardinality({commands[c].depth : c \in SubLayersOf(l)}) = Len(parts)
                  /\ \A c \in SubLayersOf(l) : commands[c].depth < layer_id
                  /\ (layer_instance.layer_instance_type = "IntGrid" /\ tiles = <<>>) =>
                         Len(CellsOf(commands, l))
                             = Cardinality({i \in DOMAIN layer_instance.int_grid_csv :
                                               layer_instance.int_grid_csv[i] # 0})

\* A pass has ended over an IntGrid layer with no tiles, which has its one
\* sub-layer and its markers, and over a layer of more than one partition.
C14_Witness ==
    /\ status = "done"
    /\ \E l \in 1..LayerCount :
           /\ Unwrap(level)[l].layer_instance_type = "IntGrid"
           /\ Unwrap(level)[l].grid_tiles \o Unwrap(level)[l].auto_layer_tiles = <<>>
           /\ Cardinality(SubLayersOf(l)) = 1
           /\ Len(CellsOf(commands, l)) = 2
    /\ \E l \in 1..LayerCount : Cardinality(SubLayersOf(l)) = 2
    /\ layer_id = 3

====
